---- MODULE Spec2Model ----
(***************************************************************************)
(* Model of the café-locator backend (backend/app/logic.py, main.py,       *)
(* settings.py): the in-memory dataset cache, the loaders, the two-tier    *)
(* address resolver, the radius filter and the request handlers.           *)
(*                                                                         *)
(* Conventions of the model                                                *)
(*   - a text is a sequence of one-character strings; a missing cell (NaN, *)
(*     what read_csv(dtype=str) gives for an empty cell) is the empty      *)
(*     sequence, which no cell read from a CSV can otherwise be;           *)
(*   - a coordinate is an integer number of thousandths of a degree, a     *)
(*     distance an integer number of metres;                               *)
(*   - a table (DataFrame) is a sequence of rows (records), in row order;  *)
(*   - the name of a city is a string.                                     *)
(***************************************************************************)
EXTENDS Integers, Sequences, FiniteSets, TLC

VARIABLES
    now,    \* the wall clock, time.time(), in seconds
    cache,  \* logic.cache: the process-wide DataCache
    op,     \* the operation the last step performed, with its inputs
    ret,    \* what that operation returned or raised
    io      \* the external calls that operation made, in order

vars == <<now, cache, op, ret, io>>

\* Python's None, where a record (a cache entry, a pair of coordinates, a
\* result) is optional
None == [none |-> TRUE]

\* Python's None, where a string (the source tag of the resolver) is optional
SinFuente == "None"

-----------------------------------------------------------------------------
(* settings.py *)

CACHE_TTL == 600

\* The keys of GID_CAFES. settings.py configures five cities; the model keeps
\* the first two, which is enough for every per-city and all-cities path.
GID_CAFES == <<"Mar del Plata", "Buenos Aires">>

Ciudades == {GID_CAFES[i] : i \in 1..Len(GID_CAFES)}

\* A city name that is not a key of GID_CAFES.
CiudadDesconocida == "Atlantis"

-----------------------------------------------------------------------------
(* Text utilities *)

Espacios == {" ", "\t"}
Minusculas == {"a", "c", "e", "l", "n", "o", "v", "z"}
Mayusculas == {"A", "C", "N"}
Cifras == {"0", "1", "2", "3", "4", "5", "6", "7", "8", "9"}
Signos == {".", ",", "-", "+", "!"}
Ascii == Espacios \cup Minusculas \cup Mayusculas \cup Cifras \cup Signos

\* str.lower() on one character
lower(c) ==
    CASE c = "A" -> "a"
      [] c = "C" -> "c"
      [] c = "N" -> "n"
      [] c = "Ó" -> "ó"
      [] OTHER -> c

\* unicodedata.normalize("NFKD", c).encode("ascii", "ignore").decode("ascii"):
\* an accented letter keeps its base letter, any other non-ASCII character
\* (here the inverted question mark) is dropped.
nfkd_ascii(c) ==
    CASE c = "ó" -> <<"o">>
      [] c = "Ó" -> <<"O">>
      [] c = "é" -> <<"e">>
      [] c \in Ascii -> <<c>>
      [] OTHER -> <<>>

RECURSIVE Concat(_)
Concat(ss) == IF ss = <<>> THEN <<>> ELSE Head(ss) \o Concat(Tail(ss))

\* str.lower()
minusculas(s) == [i \in 1..Len(s) |-> lower(s[i])]

RECURSIVE lstrip(_)
lstrip(s) ==
    IF s # <<>> /\ Head(s) \in Espacios THEN lstrip(Tail(s)) ELSE s

RECURSIVE rstrip(_)
rstrip(s) ==
    IF s # <<>> /\ s[Len(s)] \in Espacios
    THEN rstrip(SubSeq(s, 1, Len(s) - 1))
    ELSE s

\* str.strip()
strip(s) == rstrip(lstrip(s))

\* pd.isna(valor) for a cell or a request string
isna(valor) == valor = <<>>

normalizar_texto(valor, fallback) ==
    IF isna(valor) THEN fallback
    ELSE IF strip(valor) = <<>> \/ minusculas(strip(valor)) = <<"n", "a", "n">>
    THEN fallback
    ELSE strip(valor)

\* re.sub(r"[^a-zA-Z0-9\s]", " ", c) on one (lower-cased) character
solo_alfanumerico(c) ==
    IF c \in Minusculas \cup Mayusculas \cup Cifras \cup Espacios
    THEN c ELSE " "

\* re.sub(r"\s+", " ", texto)
RECURSIVE colapsar(_)
colapsar(s) ==
    IF s = <<>> THEN <<>>
    ELSE IF Head(s) \in Espacios
         THEN <<" ">> \o colapsar(lstrip(s))
         ELSE <<Head(s)>> \o colapsar(Tail(s))

\* line 58, then line 59, on the whole text
plano(texto) == Concat([i \in 1..Len(texto) |-> nfkd_ascii(texto[i])])
limpio(texto) == [i \in 1..Len(texto) |-> solo_alfanumerico(lower(texto[i]))]

texto_normalizado(valor) ==
    strip(colapsar(limpio(plano(normalizar_texto(valor, <<>>)))))

\* the length of the run of non-whitespace characters that starts s
RECURSIVE largo_palabra(_)
largo_palabra(s) ==
    IF s = <<>> \/ Head(s) \in Espacios THEN 0 ELSE 1 + largo_palabra(Tail(s))

\* str.split(): the maximal runs of non-whitespace characters
RECURSIVE split(_)
RECURSIVE palabras(_, _)
palabras(s, n) == <<SubSeq(s, 1, n)>> \o split(SubSeq(s, n + 1, Len(s)))
split(s) ==
    IF lstrip(s) = <<>> THEN <<>> ELSE palabras(lstrip(s), largo_palabra(lstrip(s)))

\* Python's `tok in texto` on strings
contiene(texto, tok) ==
    \E i \in 0..(Len(texto) - Len(tok)) : SubSeq(texto, i + 1, i + Len(tok)) = tok

-----------------------------------------------------------------------------
(* Numbers read from the sheet *)

ValorCifra(c) ==
    CASE c = "0" -> 0 [] c = "1" -> 1 [] c = "2" -> 2 [] c = "3" -> 3
      [] c = "4" -> 4 [] c = "5" -> 5 [] c = "6" -> 6 [] c = "7" -> 7
      [] c = "8" -> 8 [] c = "9" -> 9

ValorEntero(s) ==
    LET v[i \in 0..Len(s)] == IF i = 0 THEN 0 ELSE 10 * v[i - 1] + ValorCifra(s[i])
    IN  v[Len(s)]

\* Series.str.replace(",", ".", regex=False) on one cell: every comma
reemplazar_coma(s) == [i \in 1..Len(s) |-> IF s[i] = "," THEN "." ELSE s[i]]

\* pd.to_numeric(cell, errors="coerce"): an optional sign, digits with at most
\* one point and at least one digit; anything else, and a missing cell, is NaN.
\* The value is in thousandths (cells of the model have at most three decimals).
NaN == [nan |-> TRUE, v |-> 0]
Numero(v) == [nan |-> FALSE, v |-> v]

signo(s) == IF s # <<>> /\ s[1] = "-" THEN -1 ELSE 1
sin_signo(s) == IF s # <<>> /\ s[1] \in {"-", "+"} THEN Tail(s) ELSE s

bien_formado(s) ==
    /\ Cardinality({i \in 1..Len(s) : s[i] = "."}) <= 1
    /\ \A i \in 1..Len(s) : s[i] \in Cifras \cup {"."}
    /\ \E i \in 1..Len(s) : s[i] \in Cifras

\* where the point is, or one past the end
RECURSIVE punto(_)
punto(s) == IF s = <<>> \/ Head(s) = "." THEN 1 ELSE 1 + punto(Tail(s))

milesimas(s, p) ==
    ValorEntero(SubSeq(s, 1, p - 1)) * 1000
        + ValorEntero(SubSeq(SubSeq(s, p + 1, Len(s)) \o <<"0", "0", "0">>, 1, 3))

sin_signo_a_numero(sg, s) ==
    IF bien_formado(s) THEN Numero(sg * milesimas(s, punto(s))) ELSE NaN

to_numeric(s) == sin_signo_a_numero(signo(s), sin_signo(s))

\* the bounds of lines 85-86, in thousandths of a degree
LAT_MAX == 90000
LONG_MAX == 180000

\* lines 82-83: both columns to numbers
a_numeros(df) ==
    [i \in 1..Len(df) |->
        [df[i] EXCEPT !.LAT = to_numeric(reemplazar_coma(df[i].LAT)),
                      !.LONG = to_numeric(reemplazar_coma(df[i].LONG))]]

\* line 84: df.dropna(subset=["LAT", "LONG"])
dropna(df) == SelectSeq(df, LAMBDA r : ~r.LAT.nan /\ ~r.LONG.nan)

\* a latitude filter that drops the rows at the poles
en_rango_lat_estricto(df) ==
    SelectSeq(df, LAMBDA r : r.LAT.v > -LAT_MAX /\ r.LAT.v < LAT_MAX)

\* line 85
en_rango_lat(df) == SelectSeq(df, LAMBDA r : r.LAT.v >= -LAT_MAX /\ r.LAT.v <= LAT_MAX)

\* line 86
en_rango_long(df) ==
    SelectSeq(df, LAMBDA r : r.LONG.v >= -LONG_MAX /\ r.LONG.v <= LONG_MAX)

\* the float columns that are left
valores(df) ==
    [i \in 1..Len(df) |-> [df[i] EXCEPT !.LAT = df[i].LAT.v, !.LONG = df[i].LONG.v]]

\* cargar_cafes, "Limpieza de coordenadas"
limpiar_coordenadas(df) == valores(en_rango_long(en_rango_lat(dropna(a_numeros(df)))))

\* a load that keeps the city cell of the sheet
guardar_ciudad_ausente(df, ciudad) == df

\* df["CIUDAD"] = ciudad
guardar_ciudad(df, ciudad) == [i \in 1..Len(df) |-> [df[i] EXCEPT !.CIUDAD = ciudad]]

-----------------------------------------------------------------------------
(* The in-memory cache *)

CacheItem(ts, df) == [ts |-> ts, df |-> df]

\* DataCache.__init__
DataCache ==
    [cafes_por_ciudad |-> [c \in Ciudades |-> None],
     tostadores |-> None,
     todos_los_cafes |-> None]

\* a freshness test that is one second short of the TTL
is_fresh_corto(item, t) == item # None /\ (t - item.ts) < CACHE_TTL - 1

\* a freshness test that still accepts an entry whose age is the TTL
is_fresh_inclusive(item, t) == item # None /\ (t - item.ts) <= CACHE_TTL

\* DataCache.is_fresh, called at time t
is_fresh(item, t) == item # None /\ (t - item.ts) < CACHE_TTL

-----------------------------------------------------------------------------
(* The outside world: the published sheets, the local file, the clock *)

\* what a read_csv call gives: an exception, or a table of string cells
Falla == [falla |-> TRUE]
Tabla(df) == [falla |-> FALSE, df |-> df]

Fila(cafe, ubicacion, tostador, lat, long, ciudad) ==
    [CAFE |-> cafe, UBICACION |-> ubicacion, TOSTADOR |-> tostador,
     LAT |-> lat, LONG |-> long, CIUDAD |-> ciudad]

\* "Nave", "Colón 100", roaster "Cala": decimal comma in LAT, a city column
\* that names another city
FilaNave ==
    Fila(<<"N", "a", "v", "e">>, <<"C", "o", "l", "ó", "n", " ", "1", "0", "0">>,
         <<"C", "a", "l", "a">>, <<"-", "3", "8", ",", "0", "0", "0">>,
         <<"-", "5", "7", ".", "5", "5", "0">>, "Rosario")

\* "lana", "Av. canal 2", roaster "Nova": 555 m south of Nave, no city cell
FilaLana ==
    Fila(<<"l", "a", "n", "a">>,
         <<"A", "v", ".", " ", "c", "a", "n", "a", "l", " ", "2">>,
         <<"N", "o", "v", "a">>, <<"-", "3", "8", ".", "0", "0", "5">>,
         <<"-", "5", "7", ",", "5", "5">>, "")

\* "zen", "Colón 9", no roaster: 11.1 km south of Nave
FilaZen ==
    Fila(<<"z", "e", "n">>, <<"C", "o", "l", "ó", "n", " ", "9">>,
         <<>>, <<"-", "3", "8", ".", "1">>,
         <<"-", "5", "7", ".", "5", "5", "0">>, "Mar del Plata")

\* rows the cleaning must drop: latitude out of range, longitude out of
\* range, a latitude that is no number, a missing longitude
FilaLatFuera == [FilaNave EXCEPT !.LAT = <<"9", "0", ".", "0", "0", "1">>]
FilaLongFuera == [FilaLana EXCEPT !.LONG = <<"-", "1", "8", "0", ",", "5">>]
FilaLatTexto == [FilaZen EXCEPT !.LAT = <<"3", "8", "S">>]
FilaSinLong == [FilaNave EXCEPT !.LONG = <<>>]

\* the tables the sheet of a city may hold when it is fetched: headers only,
\* or rows of which two are valid
HojasCafes ==
    {<<>>,
     <<FilaNave, FilaLatFuera, FilaLana, FilaSinLong>>}

\* the tables the local file Cafes.csv may hold
ArchivosLocales == {<<FilaLongFuera, FilaZen, FilaLatTexto>>}

\* the instants at which the model looks at the clock: the start, and just
\* before and at each multiple of the TTL
MaxPeriodos == 1
Instantes ==
    {0} \cup {p * CACHE_TTL - 1 : p \in 1..MaxPeriodos}
        \cup {p * CACHE_TTL : p \in 1..MaxPeriodos}

-----------------------------------------------------------------------------
(* Loaders *)

Ok(df) == [tipo |-> "ok", df |-> df]
Raise(exc) == [tipo |-> "raise", exc |-> exc]

\* the external calls of a refresh for ciudad
LeeHoja(ciudad) == <<<<"sheet_url", ciudad>>>>
LeeHojaYLocal(ciudad) == <<<<"sheet_url", ciudad>>, <<"Cafes.csv", ciudad>>>>

\* lines 91-92: store the table and return it
guardar_cafes(c, t, ciudad, df, llamadas) ==
    [cache |-> [c EXCEPT !.cafes_por_ciudad[ciudad] = CacheItem(t, df)],
     ret |-> Ok(df),
     io |-> llamadas]

\* a failure path that stores an empty table for the city
sin_datos_en_cache(c, t, ciudad) ==
    [cache |-> [c EXCEPT !.cafes_por_ciudad[ciudad] = CacheItem(t, <<>>)],
     ret |-> Raise("DataUnavailable"),
     io |-> LeeHojaYLocal(ciudad)]

\* lines 77-79 when Cafes.csv cannot be read either: the exception of the
\* second read_csv leaves cargar_cafes, which has stored nothing
sin_datos(c, t, ciudad) ==
    [cache |-> c, ret |-> Raise("DataUnavailable"), io |-> LeeHojaYLocal(ciudad)]

\* cargar_cafes(ciudad) called at time t on cache c; remoto and local are what
\* the two read_csv calls give if they are made. The exception of the second
\* read_csv, which nothing catches, is the spec's DataUnavailable.
cargar_cafes(c, t, ciudad, remoto, local) ==
    IF ciudad \notin Ciudades
    THEN [cache |-> c, ret |-> Raise("ValueError"), io |-> <<>>]
    ELSE IF is_fresh(c.cafes_por_ciudad[ciudad], t)
    THEN [cache |-> c, ret |-> Ok(c.cafes_por_ciudad[ciudad].df), io |-> <<>>]
    ELSE IF remoto # Falla
    THEN guardar_cafes(c, t, ciudad,
                       guardar_ciudad(limpiar_coordenadas(remoto.df), ciudad),
                       LeeHoja(ciudad))
    ELSE IF local # Falla
    THEN guardar_cafes(c, t, ciudad,
                       guardar_ciudad(limpiar_coordenadas(local.df), ciudad),
                       LeeHojaYLocal(ciudad))
    ELSE sin_datos(c, t, ciudad)

\* the roaster table keeps its column names next to its rows, so that a
\* table without rows still says which columns it has
DataFrame(columns, filas) == [columns |-> columns, filas |-> filas]

\* line 101: the columns of the table that stands in for an unreadable sheet
COLUMNAS_TOSTADORES == <<"TOSTADOR", "VARIEDADES", "DESCRIPCION", "INSTAGRAM", "CIUDAD">>

\* what reading the roaster sheet gives: a failure, or a table of rows of
\* string cells
RespuestasTostadores ==
    {Falla,
     Tabla(DataFrame(COLUMNAS_TOSTADORES,
                     <<[TOSTADOR |-> "Cuervo", VARIEDADES |-> "Bourbon",
                        DESCRIPCION |-> "", INSTAGRAM |-> "@cuervo",
                        CIUDAD |-> "Mar del Plata, Buenos Aires"]>>))}

\* lines 103-104
guardar_tostadores(c, t, df) ==
    [cache |-> [c EXCEPT !.tostadores = CacheItem(t, df)],
     ret |-> Ok(df),
     io |-> <<<<"sheet_url", "tostadores">>>>]

\* a loader that answers for an unreadable sheet without storing anything
cargar_tostadores_sin_guardar(c, t, remoto) ==
    IF is_fresh(c.tostadores, t)
    THEN [cache |-> c, ret |-> Ok(c.tostadores.df), io |-> <<>>]
    ELSE IF remoto # Falla
    THEN guardar_tostadores(c, t, remoto.df)
    ELSE [cache |-> c, ret |-> Ok(DataFrame(COLUMNAS_TOSTADORES, <<>>)),
          io |-> <<<<"sheet_url", "tostadores">>>>]

cargar_tostadores(c, t, remoto) ==
    IF is_fresh(c.tostadores, t)
    THEN [cache |-> c, ret |-> Ok(c.tostadores.df), io |-> <<>>]
    ELSE guardar_tostadores(c, t, IF remoto # Falla THEN remoto.df
                                  ELSE DataFrame(COLUMNAS_TOSTADORES, <<>>))

\* a loop that starts over with an empty list when a city fails
una_ciudad_pierde(acc, r) ==
    [cache |-> r.cache,
     dfs |-> IF r.ret.tipo = "ok" THEN Append(acc.dfs, r.ret.df) ELSE <<>>,
     io |-> acc.io \o r.io]

\* one turn of the loop of cargar_todos_los_cafes: r is what cargar_cafes gave
una_ciudad(acc, r) ==
    [cache |-> r.cache,
     dfs |-> IF r.ret.tipo = "ok" THEN Append(acc.dfs, r.ret.df) ELSE acc.dfs,
     io |-> acc.io \o r.io]

\* the loop of cargar_todos_los_cafes from the i-th key of GID_CAFES on;
\* mundo[ciudad] holds what the reads for that city give
RECURSIVE cada_ciudad(_, _, _, _)
cada_ciudad(acc, t, mundo, i) ==
    IF i > Len(GID_CAFES)
    THEN acc
    ELSE cada_ciudad(
             una_ciudad(acc, cargar_cafes(acc.cache, t, GID_CAFES[i],
                                          mundo[GID_CAFES[i]].remoto,
                                          mundo[GID_CAFES[i]].local)),
             t, mundo, i + 1)

\* lines 118-124: concatenate, store and return
guardar_todos(c, t, df_all, llamadas) ==
    [cache |-> [c EXCEPT !.todos_los_cafes = CacheItem(t, df_all)],
     ret |-> Ok(df_all),
     io |-> llamadas]

concatenar_y_guardar(acc, t) == guardar_todos(acc.cache, t, Concat(acc.dfs), acc.io)

cargar_todos_los_cafes(c, t, mundo) ==
    IF is_fresh(c.todos_los_cafes, t)
    THEN [cache |-> c, ret |-> Ok(c.todos_los_cafes.df), io |-> <<>>]
    ELSE concatenar_y_guardar(
             cada_ciudad([cache |-> c, dfs |-> <<>>, io |-> <<>>], t, mundo, 1), t)

Lecturas ==
    {[remoto |-> Tabla(df), local |-> Falla] : df \in HojasCafes}
        \cup {[remoto |-> Falla, local |-> Tabla(df)] : df \in ArchivosLocales}
        \cup {[remoto |-> Falla, local |-> Falla]}
Mundos == [Ciudades -> Lecturas]

-----------------------------------------------------------------------------
(* Geocoding *)

\* what geo.geocode gives: an exception (a timeout is one) is
\* [geo |-> "error"], None is [geo |-> "None"], and a Location
Location(lat, long) == [geo |-> "Location", latitude |-> lat, longitude |-> long]

\* a pair (lat, long)
Coords(lat, long) == [lat |-> lat, long |-> long]

\* a geocodificar that asks the provider about a blank address too
geocodificar_sin_strip(direccion, ciudad, geo) ==
    IF direccion = <<>>
    THEN [coords |-> None, llamadas |-> <<>>]
    ELSE IF geo.geo = "Location"
    THEN [coords |-> Coords(geo.latitude, geo.longitude),
          llamadas |-> <<<<"geocode", direccion, ciudad>>>>]
    ELSE [coords |-> None, llamadas |-> <<<<"geocode", direccion, ciudad>>>>]

\* geocodificar: coords is the pair or None, llamadas the calls of the provider
geocodificar(direccion, ciudad, geo) ==
    IF direccion = <<>> \/ strip(direccion) = <<>>
    THEN [coords |-> None, llamadas |-> <<>>]
    ELSE IF geo.geo = "Location"
    THEN [coords |-> Coords(geo.latitude, geo.longitude),
          llamadas |-> <<<<"geocode", direccion, ciudad>>>>]
    ELSE [coords |-> None, llamadas |-> <<<<"geocode", direccion, ciudad>>>>]

largos(palabras_) == SelectSeq(palabras_, LAMBDA tok : Len(tok) >= 3)

\* a tokenizer that keeps the short tokens next to the long ones
tokens_todos(direccion_norm) == split(direccion_norm)

\* line 146: the tokens of three characters or more, or else all of them
tokens_de(direccion_norm) ==
    IF largos(split(direccion_norm)) # <<>>
    THEN largos(split(direccion_norm))
    ELSE split(direccion_norm)

\* lines 149-153: the text of a row that the tokens are looked up in
texto_fila(row) ==
    texto_normalizado(row.UBICACION) \o <<" ">> \o texto_normalizado(row.CAFE)

\* score(row): sum(1 for tok in tokens if tok in texto)
score(row, tokens) ==
    Cardinality({k \in 1..Len(tokens) : contiene(texto_fila(row), tokens[k])})

\* the rows that sort_values("MATCH", ascending=False) may put first: the sort
\* is not a stable one, so any row of maximal score
mejores(df, tokens) ==
    {i \in 1..Len(df) : \A j \in 1..Len(df) : score(df[j], tokens) <= score(df[i], tokens)}

\* lines 148-160, for a table with rows
elegir(df, tokens) ==
    {IF score(df[i], tokens) <= 0
     THEN [tipo |-> "ok", coords |-> None, puntuadas |-> Len(df)]
     ELSE [tipo |-> "ok", coords |-> Coords(df[i].LAT, df[i].LONG), puntuadas |-> Len(df)]
     : i \in mejores(df, tokens)}

\* geocodificar_desde_cafes: the set of its possible outcomes. On a table
\* without rows DataFrame.apply(score, axis=1) gives a DataFrame, not a column:
\* the assignment to MATCH (line 156) raises ValueError, and where the pandas
\* at hand lets it pass, iloc[0] (line 157) raises IndexError.
geocodificar_desde_cafes(direccion, cafes_df) ==
    IF texto_normalizado(direccion) = <<>>
    THEN {[tipo |-> "ok", coords |-> None, puntuadas |-> 0]}
    ELSE IF cafes_df = <<>>
    THEN {[tipo |-> "raise", exc |-> e, puntuadas |-> 0] :
             e \in {"ValueError", "IndexError"}}
    ELSE elegir(cafes_df, tokens_de(texto_normalizado(direccion)))

\* lines 166-169 after a local attempt l, remote attempt g before it
tras_local(g, l) ==
    IF l.tipo = "raise"
    THEN [tipo |-> "raise", exc |-> l.exc, llamadas |-> g.llamadas,
          local |-> TRUE, puntuadas |-> l.puntuadas]
    ELSE IF l.coords # None
    THEN [tipo |-> "ok", coords |-> l.coords, fuente |-> "local",
          llamadas |-> g.llamadas, local |-> TRUE, puntuadas |-> l.puntuadas]
    ELSE [tipo |-> "ok", coords |-> None, fuente |-> SinFuente,
          llamadas |-> g.llamadas, local |-> TRUE, puntuadas |-> l.puntuadas]

\* lines 163-169 after the remote attempt g
tras_remoto(g, direccion, cafes_df) ==
    IF g.coords # None
    THEN {[tipo |-> "ok", coords |-> g.coords, fuente |-> "online",
           llamadas |-> g.llamadas, local |-> FALSE, puntuadas |-> 0]}
    ELSE {tras_local(g, l) : l \in geocodificar_desde_cafes(direccion, cafes_df)}

\* resolver_coordenadas: the set of its possible outcomes; llamadas are the
\* calls of the provider, local says that geocodificar_desde_cafes was called,
\* puntuadas how many rows it scored
resolver_coordenadas(direccion, ciudad, cafes_df, geo) ==
    tras_remoto(geocodificar(direccion, ciudad, geo), direccion, cafes_df)

-----------------------------------------------------------------------------
(* Radius filter *)

Abs(n) == IF n < 0 THEN -n ELSE n

\* geopy's geodesic(a, b), in metres: the model takes 111 m for a thousandth
\* of a degree along either axis
geodesic(a, b) == 111 * (Abs(a.lat - b.lat) + Abs(a.long - b.long))

\* line 176: the DIST_KM column
con_distancia(df, coords) ==
    [i \in 1..Len(df) |->
        [CAFE |-> df[i].CAFE, UBICACION |-> df[i].UBICACION,
         TOSTADOR |-> df[i].TOSTADOR, LAT |-> df[i].LAT, LONG |-> df[i].LONG,
         CIUDAD |-> df[i].CIUDAD,
         DIST_KM |-> geodesic(coords, Coords(df[i].LAT, df[i].LONG))]]

\* cafes_en_radio: the set of its possible outcomes. On a table without rows
\* DataFrame.apply(axis=1) gives a DataFrame, not a column, unless the lambda
\* accepts a row of NaN (geopy 2 raises on it): the assignment to DIST_KM then
\* raises ValueError.
cafes_en_radio(cafes_df, coords, radio_km) ==
    IF cafes_df = <<>>
    THEN {Raise("ValueError"), Ok(<<>>)}
    ELSE {Ok(SelectSeq(con_distancia(cafes_df, coords),
                       LAMBDA r : r.DIST_KM <= radio_km))}

-----------------------------------------------------------------------------
(* main.py: the request handlers *)

\* the fallbacks of normalizar_texto: "Sin dato", "Sin tostador cargado"
SinDato == <<"S", "i", "n", " ", "d", "a", "t", "o">>
SinTostador ==
    <<"S", "i", "n", " ", "t", "o", "s", "t", "a", "d", "o", "r", " ",
      "c", "a", "r", "g", "a", "d", "o">>

\* the roaster value that asks for no filter
Todos == <<"T", "o", "d", "o", "s">>

\* the radius of a recommendation, 0.75 km, in metres
RADIO_RECOMENDAR == 750

\* a response: the status, the body, and what resolver_coordenadas gave on the
\* way (None when the handler did not get that far)
Respuesta(body, res) == [status |-> 200, body |-> body, res |-> res]

\* raise HTTPException(status_code, detail)
HTTPException(status_code, detail, res) ==
    [status |-> status_code, detail |-> detail, res |-> res]

\* an exception that leaves the handler: the framework answers 500
ErrorInterno(exc, res) == [status |-> 500, exc |-> exc, res |-> res]

\* distancia_corta, on metres: whole metres below a kilometre, hundredths of a
\* kilometre from there on
distancia_corta(m) ==
    IF m < 1000
    THEN [unidad |-> "m", valor |-> m]
    ELSE [unidad |-> "km", centesimas |-> (m + 5) \div 10]

\* the link to the map of a row
Maps(r) ==
    [url |-> "https://www.google.com/maps/search/?api=1&query=",
     lat |-> r.LAT, long |-> r.LONG]

\* CafeOut(...) as get_cafes fills it
CafeOut(r) ==
    [CAFE |-> normalizar_texto(r.CAFE, SinDato),
     UBICACION |-> normalizar_texto(r.UBICACION, SinDato),
     TOSTADOR |-> normalizar_texto(r.TOSTADOR, SinTostador),
     LAT |-> r.LAT, LONG |-> r.LONG, CIUDAD |-> r.CIUDAD]

\* CafeOut(...) as buscar_cafes and recomendar_cafe fill it
CafeOutDistancia(r, ciudad) ==
    [CAFE |-> normalizar_texto(r.CAFE, SinDato),
     UBICACION |-> normalizar_texto(r.UBICACION, SinDato),
     TOSTADOR |-> normalizar_texto(r.TOSTADOR, SinTostador),
     LAT |-> r.LAT, LONG |-> r.LONG, CIUDAD |-> ciudad,
     DIST_KM |-> r.DIST_KM, DISTANCIA |-> distancia_corta(r.DIST_KM),
     MAPS |-> Maps(r)]

\* lines 76-86 of get_cafes, after cargar_cafes gave r
responder_cafes(r) ==
    [cache |-> r.cache,
     ret |-> IF r.ret.tipo = "ok"
             THEN Respuesta([i \in 1..Len(r.ret.df) |-> CafeOut(r.ret.df[i])], None)
             ELSE ErrorInterno(r.ret.exc, None),
     io |-> r.io]

get_cafes(c, t, ciudad, remoto, local) ==
    IF ciudad \notin Ciudades
    THEN [cache |-> c, ret |-> HTTPException(400, "Ciudad inválida", None), io |-> <<>>]
    ELSE responder_cafes(cargar_cafes(c, t, ciudad, remoto, local))

\* what a handler has in hand after resolver_coordenadas gave res on the table
\* that cargar_cafes gave in r: a response, or the table and the coordinates
tras_resolver(r, res) ==
    IF res.tipo = "raise"
    THEN [fin |-> TRUE, cache |-> r.cache, ret |-> ErrorInterno(res.exc, res),
          io |-> r.io \o res.llamadas]
    ELSE IF res.coords = None
    THEN [fin |-> TRUE, cache |-> r.cache,
          ret |-> HTTPException(404, "No se pudo geocodificar la dirección", res),
          io |-> r.io \o res.llamadas]
    ELSE [fin |-> FALSE, cache |-> r.cache, cafes_df |-> r.ret.df, res |-> res,
          io |-> r.io \o res.llamadas]

\* after cargar_cafes gave r
tras_carga(r, direccion, ciudad, geo) ==
    IF r.ret.tipo = "raise"
    THEN {[fin |-> TRUE, cache |-> r.cache, ret |-> ErrorInterno(r.ret.exc, None),
           io |-> r.io]}
    ELSE {tras_resolver(r, res) :
             res \in resolver_coordenadas(direccion, ciudad, r.ret.df, geo)}

\* handlers that leave the check of the city to cargar_cafes
cargar_resolver_sin_validar(c, t, ciudad, direccion, remoto, local, geo) ==
    tras_carga(cargar_cafes(c, t, ciudad, remoto, local), direccion, ciudad, geo)

\* lines 106-112 of buscar_cafes, which are lines 145-151 of recomendar_cafe:
\* the city is checked, the table loaded, the address resolved
validar_cargar_resolver(c, t, ciudad, direccion, remoto, local, geo) ==
    IF ciudad \notin Ciudades
    THEN {[fin |-> TRUE, cache |-> c,
           ret |-> HTTPException(400, "Ciudad inválida", None), io |-> <<>>]}
    ELSE tras_carga(cargar_cafes(c, t, ciudad, remoto, local), direccion, ciudad, geo)

\* a sort that puts the farthest row first
sort_values_descendente(df) ==
    {[i \in 1..Len(df) |-> df[q[i]]] :
        q \in {p \in Permutations(1..Len(df)) :
                  \A i, j \in 1..Len(df) :
                      i < j => df[p[i]].DIST_KM >= df[p[j]].DIST_KM}}

\* sort_values("DIST_KM"): the sort is not a stable one, rows at the same
\* distance come in any order
sort_values(df) ==
    {[i \in 1..Len(df) |-> df[q[i]]] :
        q \in {p \in Permutations(1..Len(df)) :
                  \A i, j \in 1..Len(df) :
                      i < j => df[p[i]].DIST_KM <= df[p[j]].DIST_KM}}

\* lines 116-117: the roaster filter; tostador is <<>> when the request has none
filtrar_tostador(df, tostador) ==
    IF tostador # <<>> /\ tostador # Todos
    THEN SelectSeq(df, LAMBDA r : r.TOSTADOR = tostador)
    ELSE df

\* lines 119-141
responder_busqueda(p, resultado, ciudad) ==
    [cache |-> p.cache,
     ret |-> Respuesta([i \in 1..Len(resultado) |->
                            CafeOutDistancia(resultado[i], ciudad)], p.res),
     io |-> p.io]

\* line 114 on, after cafes_en_radio gave e
buscar_tras_radio(p, e, payload) ==
    IF e.tipo = "raise"
    THEN {[cache |-> p.cache, ret |-> ErrorInterno(e.exc, p.res), io |-> p.io]}
    ELSE {responder_busqueda(p, filtrar_tostador(resultado, payload.tostador),
                             payload.ciudad) :
             resultado \in sort_values(e.df)}

buscar_desde(p, payload) ==
    IF p.fin
    THEN {[cache |-> p.cache, ret |-> p.ret, io |-> p.io]}
    ELSE UNION {buscar_tras_radio(p, e, payload) :
                   e \in cafes_en_radio(p.cafes_df, p.res.coords, payload.radio_km)}

\* buscar_cafes(payload): the set of its possible outcomes
buscar_cafes(c, t, payload, remoto, local, geo) ==
    UNION {buscar_desde(p, payload) :
              p \in validar_cargar_resolver(c, t, payload.ciudad, payload.direccion,
                                            remoto, local, geo)}

\* lines 157-169: sample(n=1) takes any row
responder_recomendacion(p, recomendado, ciudad) ==
    [cache |-> p.cache,
     ret |-> Respuesta([cafe |-> CafeOutDistancia(recomendado, ciudad),
                        fuente_geocoding |->
                            IF p.res.fuente # SinFuente THEN p.res.fuente
                            ELSE "desconocida"], p.res),
     io |-> p.io]

\* line 153 on, after cafes_en_radio gave e
recomendar_tras_radio(p, e, payload) ==
    IF e.tipo = "raise"
    THEN {[cache |-> p.cache, ret |-> ErrorInterno(e.exc, p.res), io |-> p.io]}
    ELSE IF e.df = <<>>
    THEN {[cache |-> p.cache,
           ret |-> HTTPException(404, "No hay cafés en 750 m para recomendar", p.res),
           io |-> p.io]}
    ELSE {responder_recomendacion(p, e.df[k], payload.ciudad) : k \in 1..Len(e.df)}

recomendar_desde(p, payload) ==
    IF p.fin
    THEN {[cache |-> p.cache, ret |-> p.ret, io |-> p.io]}
    ELSE UNION {recomendar_tras_radio(p, e, payload) :
                   e \in cafes_en_radio(p.cafes_df, p.res.coords, RADIO_RECOMENDAR)}

\* recomendar_cafe(payload): the set of its possible outcomes
recomendar_cafe(c, t, payload, remoto, local, geo) ==
    UNION {recomendar_desde(p, payload) :
              p \in validar_cargar_resolver(c, t, payload.ciudad, payload.direccion,
                                            remoto, local, geo)}

-----------------------------------------------------------------------------
(* The loader as a state machine *)

\* op, ret and io describe the call that has just been made; between two
\* calls the process is idle and they are blank
Idle == [name |-> "idle"]

Init ==
    /\ now = 0
    /\ cache = DataCache
    /\ op = Idle
    /\ ret = None
    /\ io = <<>>

\* the call has returned
Volver ==
    /\ op # Idle
    /\ op' = Idle
    /\ ret' = None
    /\ io' = <<>>
    /\ UNCHANGED <<now, cache>>

\* time passes
Tick ==
    /\ op = Idle
    /\ \E t \in Instantes : t > now /\ now' = t
    /\ UNCHANGED <<cache, op, ret, io>>

SinLectura == [remoto |-> Falla, local |-> Falla]

\* cargar_cafes(ciudad) on cache c at time t reaches its read_csv calls
lee_hoja(c, t, ciudad) ==
    ciudad \in Ciudades /\ ~is_fresh(c.cafes_por_ciudad[ciudad], t)

\* the answers of the world are drawn for the reads that are made
CargarCafes ==
    /\ op = Idle
    /\ \E ciudad \in Ciudades \cup {CiudadDesconocida}, m \in Lecturas :
        /\ lee_hoja(cache, now, ciudad) \/ m = SinLectura
        /\ \E r \in {cargar_cafes(cache, now, ciudad, m.remoto, m.local)} :
            /\ cache' = r.cache
            /\ ret' = r.ret
            /\ io' = r.io
            /\ op' = [name |-> "cargar_cafes", ciudad |-> ciudad,
                      remoto_ok |-> m.remoto # Falla, local_ok |-> m.local # Falla]
            /\ UNCHANGED now

CargarTostadores ==
    /\ op = Idle
    /\ \E remoto \in RespuestasTostadores :
        /\ ~is_fresh(cache.tostadores, now) \/ remoto = Falla
        /\ \E r \in {cargar_tostadores(cache, now, remoto)} :
            /\ cache' = r.cache
            /\ ret' = r.ret
            /\ io' = r.io
            /\ op' = [name |-> "cargar_tostadores", remoto_ok |-> remoto # Falla]
            /\ UNCHANGED now

CargarTodosLosCafes ==
    /\ op = Idle
    /\ \E mundo \in Mundos :
        /\ \A ciudad \in Ciudades :
              \/ ~is_fresh(cache.todos_los_cafes, now) /\ lee_hoja(cache, now, ciudad)
              \/ mundo[ciudad] = SinLectura
        /\ \E r \in {cargar_todos_los_cafes(cache, now, mundo)} :
            /\ cache' = r.cache
            /\ ret' = r.ret
            /\ io' = r.io
            /\ op' = [name |-> "cargar_todos_los_cafes"]
            /\ UNCHANGED now

Next ==
    \/ Tick
    \/ CargarCafes
    \/ CargarTostadores
    \/ CargarTodosLosCafes
    \/ Volver

Spec == Init /\ [][Next]_vars

-----------------------------------------------------------------------------
(* The functions of logic.py called on their own *)

\* the tables of at most MaxFilas rows over the valid rows of the sheets
MaxFilas == 2
FilasLimpias ==
    {guardar_ciudad(limpiar_coordenadas(<<f>>), "Mar del Plata")[1] :
        f \in {FilaNave, FilaLana, FilaZen}}
TablasLimpias == UNION {[1..n -> FilasLimpias] : n \in 0..MaxFilas}

\* request addresses: "", blanks, "Av. Colón 100", "Av 2" (no token of three
\* characters), "Colón" (in two rows), "zzz", "zzz 2", "¿!", "NaN",
\* "nave nave nave lana canal" (a word said three times)
Direcciones ==
    {<<>>,
     <<" ", "\t">>,
     <<"A", "v", ".", " ", "C", "o", "l", "ó", "n", " ", "1", "0", "0">>,
     <<"A", "v", " ", "2">>,
     <<"C", "o", "l", "ó", "n">>,
     <<"z", "z", "z">>,
     <<"z", "z", "z", " ", "2">>,
     <<"¿", "!">>,
     <<"N", "a", "N">>,
     <<"n", "a", "v", "e", " ", "n", "a", "v", "e", " ", "n", "a", "v", "e", " ",
       "l", "a", "n", "a", " ", "c", "a", "n", "a", "l">>}

\* what the provider may answer: the place of Nave, a place 55 km from it
RespuestasGeo ==
    {[geo |-> "error"], [geo |-> "None"], Location(-38000, -57550), Location(-38500, -57550)}

\* radio_km, in metres
Radios == {500, 2000}

LlamadasResolver ==
    {[name |-> "resolver_coordenadas", direccion |-> x[1], ciudad |-> x[2],
      cafes_df |-> x[3], geo |-> x[4]] :
        x \in Direcciones \X Ciudades \X TablasLimpias \X RespuestasGeo}

LlamadasDesdeCafes ==
    {[name |-> "geocodificar_desde_cafes", direccion |-> x[1], cafes_df |-> x[2]] :
        x \in Direcciones \X TablasLimpias}

LlamadasEnRadio ==
    {[name |-> "cafes_en_radio", cafes_df |-> x[1], coords |-> x[2], radio_km |-> x[3]] :
        x \in TablasLimpias \X {Coords(-38000, -57550), Coords(-38500, -57550)} \X Radios}

\* values that are normalized: the request addresses, the cells of the rows,
\* " Nave ", "nan", "NaN!", and the fallbacks themselves
ValoresTexto ==
    Direcciones
        \cup {f.CAFE : f \in {FilaNave, FilaLana, FilaZen}}
        \cup {f.UBICACION : f \in {FilaNave, FilaLana, FilaZen}}
        \cup {<<" ", "N", "a", "v", "e", " ">>, <<"n", "a", "n">>,
              <<"N", "a", "N", "!">>, SinDato, SinTostador}

\* more rows a sheet may hold: the ends of both ranges, a latitude of -180
\* next to a longitude of 90.001, a latitude with two commas
FilaBorde == [FilaZen EXCEPT !.LAT = <<"9", "0">>, !.LONG = <<"-", "1", "8", "0">>]

FilasCrudas ==
    {FilaNave, FilaLana, FilaZen, FilaBorde, FilaLatFuera,
     FilaLongFuera, FilaLatTexto, FilaSinLong,
     [FilaLana EXCEPT !.LAT = <<"-", "9", "0", ",", "0">>,
                      !.LONG = <<"1", "8", "0", ".", "0", "0">>],
     [FilaNave EXCEPT !.LAT = <<"-", "1", "8", "0">>,
                      !.LONG = <<"9", "0", ".", "0", "0", "1">>],
     [FilaLana EXCEPT !.LAT = <<"1", ",", "2", ",", "3">>]}

\* cargar_cafes on a cache without entries, for the fetched tables of at most
\* MaxFilas rows; the table comes from the sheet, or from Cafes.csv after the
\* sheet has failed
LlamadasCargarCafes ==
    {[name |-> "cargar_cafes", ciudad |-> x[1], df |-> x[2], remoto_ok |-> x[3]] :
        x \in Ciudades \X (UNION {[1..n -> FilasCrudas] : n \in 0..MaxFilas})
                 \X BOOLEAN}

\* normalizar_texto with the fallbacks the program passes to it: the default,
\* the one for the roaster (main.py), the empty string (texto_normalizado)
LlamadasNormalizarTexto ==
    {[name |-> "normalizar_texto", valor |-> x[1], fallback |-> x[2]] :
        x \in ValoresTexto \X {SinDato, SinTostador, <<>>}}

LlamadasTextoNormalizado ==
    {[name |-> "texto_normalizado", valor |-> v] : v \in ValoresTexto}

\* a call that is about to be made
InitFn ==
    /\ now = 0
    /\ cache = DataCache
    /\ op \in LlamadasResolver \cup LlamadasDesdeCafes \cup LlamadasEnRadio
               \cup LlamadasNormalizarTexto \cup LlamadasTextoNormalizado
               \cup LlamadasCargarCafes
    /\ ret = None
    /\ io = <<>>

ResolverCoordenadas ==
    /\ op.name = "resolver_coordenadas" /\ ret = None
    /\ \E r \in resolver_coordenadas(op.direccion, op.ciudad, op.cafes_df, op.geo) :
          /\ ret' = r
          /\ io' = r.llamadas
    /\ UNCHANGED <<now, cache, op>>

GeocodificarDesdeCafes ==
    /\ op.name = "geocodificar_desde_cafes" /\ ret = None
    /\ \E r \in geocodificar_desde_cafes(op.direccion, op.cafes_df) : ret' = r
    /\ UNCHANGED <<now, cache, op, io>>

CafesEnRadio ==
    /\ op.name = "cafes_en_radio" /\ ret = None
    /\ \E r \in cafes_en_radio(op.cafes_df, op.coords, op.radio_km) : ret' = r
    /\ UNCHANGED <<now, cache, op, io>>

\* the function is applied, and applied again to what it gave
NormalizarTexto ==
    /\ op.name = "normalizar_texto" /\ ret = None
    /\ ret' = [valor |-> normalizar_texto(op.valor, op.fallback),
               otra_vez |-> normalizar_texto(normalizar_texto(op.valor, op.fallback),
                                             op.fallback)]
    /\ UNCHANGED <<now, cache, op, io>>

TextoNormalizado ==
    /\ op.name = "texto_normalizado" /\ ret = None
    /\ ret' = [valor |-> texto_normalizado(op.valor),
               otra_vez |-> texto_normalizado(texto_normalizado(op.valor))]
    /\ UNCHANGED <<now, cache, op, io>>

CargarCafesDe ==
    /\ op.name = "cargar_cafes" /\ ret = None
    /\ \E r \in {cargar_cafes(cache, now, op.ciudad,
                               IF op.remoto_ok THEN Tabla(op.df) ELSE Falla,
                               IF op.remoto_ok THEN Falla ELSE Tabla(op.df))} :
        /\ cache' = r.cache
        /\ ret' = r.ret
        /\ io' = r.io
    /\ UNCHANGED <<now, op>>

NextFn ==
    \/ ResolverCoordenadas
    \/ GeocodificarDesdeCafes
    \/ CafesEnRadio
    \/ NormalizarTexto
    \/ TextoNormalizado
    \/ CargarCafesDe

SpecFn == InitFn /\ [][NextFn]_vars

-----------------------------------------------------------------------------
(* The service: requests served one after the other within one TTL period *)

\* request addresses: blanks, "¿!", "Av. Colón 100", "Av 2", "zzz"
DireccionesPedidas ==
    {<<" ", "\t">>,
     <<"¿", "!">>,
     <<"A", "v", ".", " ", "C", "o", "l", "ó", "n", " ", "1", "0", "0">>,
     <<"A", "v", " ", "2">>,
     <<"z", "z", "z">>}

BuscarCafesIn ==
    [ciudad : Ciudades \cup {CiudadDesconocida}, direccion : DireccionesPedidas,
     radio_km : Radios, tostador : {<<>>, Todos, <<"C", "a", "l", "a">>}]

RecomendarIn ==
    [ciudad : Ciudades \cup {CiudadDesconocida}, direccion : DireccionesPedidas]

GetCafes ==
    /\ op = Idle
    /\ \E ciudad \in Ciudades \cup {CiudadDesconocida}, m \in Lecturas :
        /\ lee_hoja(cache, now, ciudad) \/ m = SinLectura
        /\ \E r \in {get_cafes(cache, now, ciudad, m.remoto, m.local)} :
            /\ cache' = r.cache
            /\ ret' = r.ret
            /\ io' = r.io
            /\ op' = [name |-> "get_cafes", ciudad |-> ciudad]
            /\ UNCHANGED now

BuscarCafes ==
    /\ op = Idle
    /\ \E payload \in BuscarCafesIn, m \in Lecturas, geo \in RespuestasGeo :
        /\ lee_hoja(cache, now, payload.ciudad) \/ m = SinLectura
        /\ \E r \in buscar_cafes(cache, now, payload, m.remoto, m.local, geo) :
            /\ cache' = r.cache
            /\ ret' = r.ret
            /\ io' = r.io
            /\ op' = [name |-> "buscar_cafes", ciudad |-> payload.ciudad,
                      payload |-> payload, geo |-> geo]
            /\ UNCHANGED now

RecomendarCafe ==
    /\ op = Idle
    /\ \E payload \in RecomendarIn, m \in Lecturas, geo \in RespuestasGeo :
        /\ lee_hoja(cache, now, payload.ciudad) \/ m = SinLectura
        /\ \E r \in recomendar_cafe(cache, now, payload, m.remoto, m.local, geo) :
            /\ cache' = r.cache
            /\ ret' = r.ret
            /\ io' = r.io
            /\ op' = [name |-> "recomendar_cafe", ciudad |-> payload.ciudad,
                      payload |-> payload, geo |-> geo]
            /\ UNCHANGED now

NextApi ==
    \/ CargarCafes
    \/ GetCafes
    \/ BuscarCafes
    \/ RecomendarCafe
    \/ Volver

SpecApi == Init /\ [][NextApi]_vars

-----------------------------------------------------------------------------
(* The service under concurrent requests: the handlers are plain functions,  *)
(* which the framework runs on the threads of a pool, so that calls of       *)
(* cargar_cafes interleave line by line. Here op, ret and io have one        *)
(* component per thread: op[h] is the frame of the call of thread h (where   *)
(* it is, its city, its local df), ret[h] the table the call returned to the *)
(* handler, io[h] the reads the call made. A table is an object: a record of *)
(* its identity and its rows, and a change of a table in place changes the   *)
(* rows wherever that identity is held.                                      *)

\* two threads of the pool
Hilos == {1, 2}

\* the calls a thread makes
MaxLlamadas == 1

Objeto(id, filas) == [id |-> id, filas |-> filas]

Parado(n) == [pc |-> "idle", n |-> n, ciudad |-> "", df |-> None]

InitConc ==
    /\ now = 0
    /\ cache = DataCache
    /\ op = [h \in Hilos |-> Parado(0)]
    /\ ret = [h \in Hilos |-> None]
    /\ io = [h \in Hilos |-> <<>>]

\* a handler that has passed its check of the city calls cargar_cafes
Llamar(h) ==
    /\ op[h].pc = "idle" /\ op[h].n < MaxLlamadas
    /\ \E ciudad \in Ciudades :
          op' = [op EXCEPT ![h] = [pc |-> "get", n |-> op[h].n + 1,
                                   ciudad |-> ciudad, df |-> None]]
    /\ ret' = [ret EXCEPT ![h] = None]
    /\ io' = [io EXCEPT ![h] = <<>>]
    /\ UNCHANGED <<now, cache>>

\* lines 70-72: the entry is looked up; a fresh one is returned as it is
Consultar(h) ==
    /\ op[h].pc = "get"
    /\ IF is_fresh(cache.cafes_por_ciudad[op[h].ciudad], now)
       THEN /\ op' = [op EXCEPT ![h].pc = "use"]
            /\ ret' = [ret EXCEPT ![h] = cache.cafes_por_ciudad[op[h].ciudad].df]
       ELSE /\ op' = [op EXCEPT ![h].pc = "read"]
            /\ UNCHANGED ret
    /\ UNCHANGED <<now, cache, io>>

\* lines 75-79: the sheet is read, and Cafes.csv if that fails; the table read
\* is a new object; when both reads fail the call ends with the exception
Leer(h) ==
    /\ op[h].pc = "read"
    /\ \E m \in Lecturas :
        /\ io' = [io EXCEPT ![h] = IF m.remoto # Falla THEN LeeHoja(op[h].ciudad)
                                   ELSE LeeHojaYLocal(op[h].ciudad)]
        /\ op' = [op EXCEPT ![h] =
                    IF m = SinLectura THEN Parado(op[h].n)
                    ELSE [op[h] EXCEPT
                            !.pc = "clean",
                            !.df = Objeto(<<h, op[h].n>>,
                                          IF m.remoto # Falla THEN m.remoto.df
                                          ELSE m.local.df)]]
    /\ UNCHANGED <<now, cache, ret>>

\* the order of lines 81-92: clean, stamp the city, store, return
siguiente_guarda_antes(pc) ==
    CASE pc = "clean" -> "store"
      [] pc = "store" -> "stamp"
      [] pc = "stamp" -> "return"

siguiente(pc) ==
    CASE pc = "clean" -> "stamp"
      [] pc = "stamp" -> "store"
      [] pc = "store" -> "return"

\* lines 82-86, on the table the call has just read
Limpiar(h) ==
    /\ op[h].pc = "clean"
    /\ op' = [op EXCEPT ![h].pc = siguiente("clean"),
                        ![h].df.filas = limpiar_coordenadas(op[h].df.filas)]
    /\ UNCHANGED <<now, cache, ret, io>>

\* the rows of object d after the object id has been given rows filas in place
en_el_lugar(d, id, filas) ==
    IF d # None /\ d.id = id THEN Objeto(id, filas) ELSE d

item_en_el_lugar(item, id, filas) ==
    IF item = None THEN None ELSE CacheItem(item.ts, en_el_lugar(item.df, id, filas))

\* line 89: df["CIUDAD"] = ciudad changes the table of the call in place
Estampar(h) ==
    /\ op[h].pc = "stamp"
    /\ \E filas \in {guardar_ciudad(op[h].df.filas, op[h].ciudad)} :
        /\ op' = [op EXCEPT ![h].pc = siguiente("stamp"),
                            ![h].df = Objeto(op[h].df.id, filas)]
        /\ cache' = [cache EXCEPT !.cafes_por_ciudad =
                        [c \in Ciudades |->
                            item_en_el_lugar(cache.cafes_por_ciudad[c], op[h].df.id, filas)]]
        /\ ret' = [g \in Hilos |-> en_el_lugar(ret[g], op[h].df.id, filas)]
    /\ UNCHANGED <<now, io>>

\* line 91: the entry of the city is replaced by one that holds the table
Guardar(h) ==
    /\ op[h].pc = "store"
    /\ cache' = [cache EXCEPT !.cafes_por_ciudad[op[h].ciudad] = CacheItem(now, op[h].df)]
    /\ op' = [op EXCEPT ![h].pc = siguiente("store")]
    /\ UNCHANGED <<now, ret, io>>

\* line 92
Retornar(h) ==
    /\ op[h].pc = "return"
    /\ ret' = [ret EXCEPT ![h] = op[h].df]
    /\ op' = [op EXCEPT ![h].pc = "use"]
    /\ UNCHANGED <<now, cache, io>>

\* the handler reads the table it was given (iterrows, or the copies that
\* resolver_coordenadas and cafes_en_radio take) and answers
Usar(h) ==
    /\ op[h].pc = "use"
    /\ op' = [op EXCEPT ![h] = Parado(op[h].n)]
    /\ ret' = [ret EXCEPT ![h] = None]
    /\ io' = [io EXCEPT ![h] = <<>>]
    /\ UNCHANGED <<now, cache>>

\* a TTL or more passes, whatever the threads are doing: the entries that
\* were fresh are stale
Reloj ==
    /\ \E t \in Instantes : t >= now + CACHE_TTL /\ now' = t
    /\ UNCHANGED <<cache, op, ret, io>>

Llama == \E h \in Hilos : Llamar(h)
Consulta == \E h \in Hilos : Consultar(h)
Lee == \E h \in Hilos : Leer(h)
Limpia == \E h \in Hilos : Limpiar(h)
Estampa == \E h \in Hilos : Estampar(h)
Guarda == \E h \in Hilos : Guardar(h)
Retorna == \E h \in Hilos : Retornar(h)
Usa == \E h \in Hilos : Usar(h)

NextConc ==
    \/ Llama
    \/ Consulta
    \/ Lee
    \/ Limpia
    \/ Estampa
    \/ Guarda
    \/ Retorna
    \/ Usa
    \/ Reloj

SpecConc == InitConc /\ [][NextConc]_vars

-----------------------------------------------------------------------------
(* Properties of the loaders *)

\* the keys of the cache and the entry of a key
Claves == Ciudades \cup {"tostadores", "todos_los_cafes"}

Entrada(c, k) ==
    IF k = "tostadores" THEN c.tostadores
    ELSE IF k = "todos_los_cafes" THEN c.todos_los_cafes
    ELSE c.cafes_por_ciudad[k]

Presentes(c) == {k \in Claves : Entrada(c, k) # None}

EsCargarCafes(o) == o.name = "cargar_cafes" /\ o.ciudad \in Ciudades

\* C1: an entry created at time T is fresh at a query time T' exactly when
\* T' - T < 600 seconds, an absent entry is never fresh, and cargar_cafes
\* answers from the cache only an entry younger than 600 seconds.
C1_Freshness ==
    /\ \A t \in Instantes : ~is_fresh(None, t)
    /\ \A k \in Presentes(cache) : \A t \in Instantes :
          t >= Entrada(cache, k).ts =>
              (is_fresh(Entrada(cache, k), t) <=> t - Entrada(cache, k).ts < 600)
    /\ (EsCargarCafes(op) /\ ret.tipo = "ok" /\ io = <<>>)
          => /\ cache.cafes_por_ciudad[op.ciudad] # None
             /\ now - cache.cafes_por_ciudad[op.ciudad].ts < 600

\* an entry whose age is exactly the TTL is in the cache next to one that is
\* younger, and the last call was answered from an entry 599 seconds old
C1_Witness ==
    /\ \E k \in Presentes(cache) : now - Entrada(cache, k).ts = 600
    /\ \E k \in Presentes(cache) : now - Entrada(cache, k).ts = 1
    /\ \E k \in Presentes(cache), t \in Instantes : t - Entrada(cache, k).ts = 599

\* C2: every row of every per-city entry and of the all-cities entry has its
\* latitude in [-90, 90] and its longitude in [-180, 180]; a row of a per-city
\* entry carries the city that is its key, a row of the all-cities entry a
\* configured city, and the rows of the all-cities entry come city by city in
\* the order in which cargar_cafes was called for them.
Orden(ciudad) ==
    CHOOSE k \in 1..2 : <<"Mar del Plata", "Buenos Aires">>[k] = ciudad

EnRango(r) ==
    /\ r.LAT >= -90000 /\ r.LAT <= 90000
    /\ r.LONG >= -180000 /\ r.LONG <= 180000

C2_RowsValid ==
    /\ \A ciudad \in Ciudades :
          cache.cafes_por_ciudad[ciudad] # None =>
              \A i \in 1..Len(cache.cafes_por_ciudad[ciudad].df) :
                  /\ EnRango(cache.cafes_por_ciudad[ciudad].df[i])
                  /\ cache.cafes_por_ciudad[ciudad].df[i].CIUDAD = ciudad
    /\ cache.todos_los_cafes # None =>
          \A i \in 1..Len(cache.todos_los_cafes.df) :
              /\ EnRango(cache.todos_los_cafes.df[i])
              /\ cache.todos_los_cafes.df[i].CIUDAD \in Ciudades
              /\ \A j \in 1..(i - 1) :
                    Orden(cache.todos_los_cafes.df[j].CIUDAD)
                        <= Orden(cache.todos_los_cafes.df[i].CIUDAD)

TieneCafe(item, cafe) == item # None /\ \E i \in 1..Len(item.df) : item.df[i].CAFE = cafe

\* the sheet's row of Nave (city cell "Rosario"), read from the remote sheet,
\* is cached for one city, the local file's row of zen (city cell "Mar del
\* Plata") for the other, and both are in the all-cities entry
C2_Witness ==
    /\ TieneCafe(cache.cafes_por_ciudad["Mar del Plata"], FilaNave.CAFE)
    /\ TieneCafe(cache.cafes_por_ciudad["Buenos Aires"], FilaZen.CAFE)
    /\ TieneCafe(cache.todos_los_cafes, FilaNave.CAFE)
    /\ TieneCafe(cache.todos_los_cafes, FilaZen.CAFE)

\* C3: cargar_cafes(ciudad) called while the entry of ciudad is fresh returns
\* that entry's table, reads neither the sheet nor the local file, and leaves
\* the whole cache as it was.
C3_FreshHit ==
    [][(/\ EsCargarCafes(op')
        /\ cache.cafes_por_ciudad[op'.ciudad] # None
        /\ now - cache.cafes_por_ciudad[op'.ciudad].ts < 600)
       => /\ ret' = Ok(cache.cafes_por_ciudad[op'.ciudad].df)
          /\ io' = <<>>
          /\ cache' = cache]_vars

\* a call answered from an entry 599 seconds old that holds rows, with the
\* roaster entry and the all-cities entry present
C3_Witness ==
    /\ EsCargarCafes(op) /\ ret.tipo = "ok" /\ io = <<>>
    /\ Len(ret.df) > 0
    /\ now - cache.cafes_por_ciudad[op.ciudad].ts = 599
    /\ cache.tostadores # None
    /\ cache.todos_los_cafes # None

\* C4: when a refresh finds the sheet unreadable, Cafes.csv is read exactly
\* once; when that fails too the call raises, the cache is exactly as it was,
\* and the entry of the city is still not fresh, so that the next call reads
\* the sheet again: every call that finds the entry not fresh starts by
\* reading the sheet.
NoFresca(c, t, ciudad) ==
    c.cafes_por_ciudad[ciudad] = None \/ t - c.cafes_por_ciudad[ciudad].ts >= 600

C4_NoNegativeCaching ==
    [][(EsCargarCafes(op') /\ NoFresca(cache, now, op'.ciudad))
       => /\ io' # <<>> /\ io'[1] = <<"sheet_url", op'.ciudad>>
          /\ op'.remoto_ok => io' = <<<<"sheet_url", op'.ciudad>>>>
          /\ ~op'.remoto_ok =>
                io' = <<<<"sheet_url", op'.ciudad>>, <<"Cafes.csv", op'.ciudad>>>>
          /\ (~op'.remoto_ok /\ ~op'.local_ok) =>
                /\ ret' = Raise("DataUnavailable")
                /\ cache' = cache
                /\ NoFresca(cache', now', op'.ciudad)]_vars

\* both reads have failed for a city whose stale entry is still in the cache
C4_Witness ==
    /\ EsCargarCafes(op) /\ ret = Raise("DataUnavailable")
    /\ io = <<<<"sheet_url", op.ciudad>>, <<"Cafes.csv", op.ciudad>>>>
    /\ cache.cafes_por_ciudad[op.ciudad] # None

-----------------------------------------------------------------------------
(* Properties of the resolver and of the radius filter *)

EsResolver == op.name = "resolver_coordenadas" /\ ret # None
EsDesdeCafes == op.name = "geocodificar_desde_cafes" /\ ret # None
EsEnRadio == op.name = "cafes_en_radio" /\ ret # None

\* the request address is empty or made of whitespace only
EnBlanco(direccion) == \A i \in 1..Len(direccion) : direccion[i] \in {" ", "\t"}

\* the remote attempt gives coordinates
RemotoResuelve(o) == ~EnBlanco(o.direccion) /\ o.geo.geo = "Location"

\* the words of the normalized address, and those the match looks up
Palabras(direccion) ==
    {split(texto_normalizado(direccion))[k] :
        k \in 1..Len(split(texto_normalizado(direccion)))}
PalabrasLargas(direccion) == {w \in Palabras(direccion) : Len(w) >= 3}
PalabrasBuscadas(direccion) ==
    IF PalabrasLargas(direccion) # {} THEN PalabrasLargas(direccion)
    ELSE Palabras(direccion)

\* the normalized location and name of the row hold one of the words
Comparte(row, ws) ==
    \E w \in ws :
        contiene(texto_normalizado(row.UBICACION) \o <<" ">> \o texto_normalizado(row.CAFE), w)

HayCoincidencia(direccion, df) ==
    \E i \in 1..Len(df) : Comparte(df[i], PalabrasBuscadas(direccion))

\* C6: resolver_coordenadas never raises; it asks the provider before it looks
\* at the table, and looks at the table only after a negative remote answer;
\* it returns (coords, "online") exactly when the remote attempt gave
\* coordinates, (coords, "local") exactly when it did not and a row matches,
\* (None, None) otherwise, and coords is None exactly when the tag is None.
C6_ResolverOrder ==
    EsResolver =>
        /\ ret.tipo = "ok"
        /\ ret.tipo = "ok" =>
            /\ ret.local <=> ~RemotoResuelve(op)
            /\ (ret.fuente = "online") <=> RemotoResuelve(op)
            /\ (ret.fuente = "local") <=>
                  (~RemotoResuelve(op) /\ HayCoincidencia(op.direccion, op.cafes_df))
            /\ ret.fuente \in {"online", "local", SinFuente}
            /\ (ret.coords = None) <=> (ret.fuente = SinFuente)
            /\ (ret.fuente = "online") =>
                  ret.coords = Coords(op.geo.latitude, op.geo.longitude)

\* C8: for an address that is empty or whitespace only, whatever the city and
\* the table, resolver_coordenadas returns (None, None), makes no call of the
\* provider and scores no row.
C8_BlankAddress ==
    (EsResolver /\ EnBlanco(op.direccion)) =>
        /\ ret.tipo = "ok"
        /\ ret.coords = None /\ ret.fuente = SinFuente
        /\ ret.llamadas = <<>> /\ io = <<>>
        /\ ret.puntuadas = 0

\* a whitespace-only address has been resolved against a table with rows while
\* the provider would have answered with a place
C8_Witness ==
    /\ EsResolver /\ op.direccion = <<" ", "\t">>
    /\ Len(op.cafes_df) = 2
    /\ op.geo.geo = "Location"
    /\ ret.coords = None

\* C9 as stated: when no word of three characters or more of the address is in
\* the normalized location and name of any row, geocodificar_desde_cafes
\* returns None.
C9_NoSharedToken ==
    (EsDesdeCafes
        /\ \A i \in 1..Len(op.cafes_df) :
              ~Comparte(op.cafes_df[i], PalabrasLargas(op.direccion)))
        => (ret.tipo = "ok" /\ ret.coords = None)

\* C9, amended: when none of the words the match looks up (those of three
\* characters or more, or all of them when there is none) is in the normalized
\* location and name of any row, geocodificar_desde_cafes gives no coordinates:
\* it returns None, or raises when the table has no rows and the normalized
\* address is not empty.
C9_NoLookedUpToken ==
    (EsDesdeCafes /\ ~HayCoincidencia(op.direccion, op.cafes_df))
        => /\ ret.tipo = "ok" => ret.coords = None
           /\ ret.tipo = "raise" =>
                 (op.cafes_df = <<>> /\ texto_normalizado(op.direccion) # <<>>)

\* "zzz 2" has been looked up in a table that holds "Av. canal 2": the short
\* word is in a row, the long one in none, and the answer is None
C9_Witness ==
    /\ EsDesdeCafes /\ op.direccion = <<"z", "z", "z", " ", "2">>
    /\ \E i \in 1..Len(op.cafes_df) : Comparte(op.cafes_df[i], {<<"2">>})
    /\ ~HayCoincidencia(op.direccion, op.cafes_df)
    /\ ret.tipo = "ok" /\ ret.coords = None

\* C10: cafes_en_radio returns, in the order of the table, exactly the rows
\* whose distance from the origin is at most the radius, each with that
\* distance as DIST_KM and its other cells as they were.
Distancia(o, i) ==
    111 * (Abs(o.coords.lat - o.cafes_df[i].LAT) + Abs(o.coords.long - o.cafes_df[i].LONG))

Dentro(o) == {i \in 1..Len(o.cafes_df) : Distancia(o, i) <= o.radio_km}

C10_RadiusFilter ==
    EsEnRadio =>
        /\ ret.tipo = "ok"
        /\ ret.tipo = "ok" =>
            /\ Len(ret.df) = Cardinality(Dentro(op))
            /\ \A i \in Dentro(op) :
                  \E k \in 1..Len(ret.df) :
                      /\ ret.df[k].DIST_KM = Distancia(op, i)
                      /\ ret.df[k].CAFE = op.cafes_df[i].CAFE
                      /\ ret.df[k].LAT = op.cafes_df[i].LAT
                      /\ ret.df[k].LONG = op.cafes_df[i].LONG
            /\ \A k \in 1..Len(ret.df) : ret.df[k].DIST_KM <= op.radio_km

-----------------------------------------------------------------------------
(* Properties of the service *)

EsBusqueda(o) == o.name \in {"buscar_cafes", "recomendar_cafe"}
EsPedido(o) == o.name \in {"cargar_cafes", "get_cafes", "buscar_cafes", "recomendar_cafe"}

\* C5: for a city that is not configured, cargar_cafes raises ValueError, and
\* get_cafes, buscar_cafes and recomendar_cafe answer 400; none of them reads a
\* sheet or the local file, calls the geocoding provider or changes the cache.
C5_InvalidCity ==
    [][(EsPedido(op') /\ op'.ciudad \notin {"Mar del Plata", "Buenos Aires"})
       => /\ io' = <<>>
          /\ cache' = cache
          /\ (op'.name = "cargar_cafes") => ret' = Raise("ValueError")
          /\ (op'.name # "cargar_cafes") => (ret'.status = 400 /\ ret'.res = None)]_vars

\* a search for "Av. Colón 100" in a city that is not configured has been
\* answered 400 while a table is cached and the provider would have answered
C5_Witness ==
    /\ op.name = "buscar_cafes" /\ op.ciudad = "Atlantis"
    /\ op.payload.direccion # <<>> /\ ~EnBlanco(op.payload.direccion)
    /\ op.geo.geo = "Location"
    /\ ret.status = 400 /\ io = <<>>
    /\ \E ciudad \in Ciudades : cache.cafes_por_ciudad[ciudad] # None

\* cargar_cafes raised the exception of the second read_csv
CargaFallida == ret.status = 500 /\ ret.res = None

\* C7: for a non-empty address and any table a load gave, the empty one
\* included, when the provider gives no coordinates and no row matches,
\* resolver_coordenadas returns (None, None) without raising, and buscar_cafes
\* and recomendar_cafe answer 404.
C7_NoMatchNotFound ==
    (/\ EsBusqueda(op) /\ op.ciudad \in Ciudades /\ ~CargaFallida
     /\ op.payload.direccion # <<>>
     /\ op.geo.geo # "Location"
     /\ ~HayCoincidencia(op.payload.direccion, cache.cafes_por_ciudad[op.ciudad].df))
    => /\ ret.res # None
       /\ ret.res.tipo = "ok"
       /\ ret.res.tipo = "ok" => (ret.res.coords = None /\ ret.res.fuente = SinFuente)
       /\ ret.status = 404

\* the handler got coordinates from resolver_coordenadas
Resuelta == ret.res # None /\ ret.res.tipo = "ok" /\ ret.res.coords # None

\* the table the handler worked on, and the distance of its i-th row from the
\* coordinates the resolver gave
TablaUsada == cache.cafes_por_ciudad[op.ciudad].df

DistanciaDe(i) ==
    111 * (Abs(ret.res.coords.lat - TablaUsada[i].LAT)
             + Abs(ret.res.coords.long - TablaUsada[i].LONG))

PasaFiltro(i, tostador) ==
    tostador \in {<<>>, <<"T", "o", "d", "o", "s">>} \/ TablaUsada[i].TOSTADOR = tostador

Esperadas ==
    {i \in 1..Len(TablaUsada) :
        DistanciaDe(i) <= op.payload.radio_km /\ PasaFiltro(i, op.payload.tostador)}

\* C11: whenever the address resolves, buscar_cafes answers 200 with exactly
\* the rows of the city's table that lie within the radius and pass the roaster
\* filter, in ascending order of distance, each with DIST_KM, DISTANCIA and
\* MAPS; the list is empty, and still a success, when no row qualifies.
C11_Search ==
    (op.name = "buscar_cafes" /\ op.ciudad \in Ciudades /\ ~CargaFallida /\ Resuelta)
    => /\ ret.status = 200
       /\ ret.status = 200 =>
           /\ Len(ret.body) = Cardinality(Esperadas)
           /\ \A i \in Esperadas :
                 \E k \in 1..Len(ret.body) :
                     /\ ret.body[k].LAT = TablaUsada[i].LAT
                     /\ ret.body[k].LONG = TablaUsada[i].LONG
                     /\ ret.body[k].DIST_KM = DistanciaDe(i)
           /\ \A k \in 1..Len(ret.body) :
                 /\ {"DIST_KM", "DISTANCIA", "MAPS"} \subseteq DOMAIN ret.body[k]
                 /\ ret.body[k].DIST_KM <= op.payload.radio_km
                 /\ \A l \in 1..(k - 1) : ret.body[l].DIST_KM <= ret.body[k].DIST_KM

\* neither the provider nor the table gives coordinates for the address
NingunNivel ==
    /\ EnBlanco(op.payload.direccion) \/ op.geo.geo # "Location"
    /\ ~HayCoincidencia(op.payload.direccion, TablaUsada)

EsGeocodeFailed ==
    ret.status = 404 /\ ret.detail = "No se pudo geocodificar la dirección"
EsNoCandidates ==
    ret.status = 404 /\ ret.detail = "No hay cafés en 750 m para recomendar"

\* the rows within 0.75 km of the coordinates the resolver gave
Cercanas == {i \in 1..Len(TablaUsada) : DistanciaDe(i) <= 750}

\* C12: for a configured city whose table could be loaded, recomendar_cafe
\* answers "no se pudo geocodificar" exactly when neither tier gives
\* coordinates, "no hay cafés en 750 m" exactly when coordinates were resolved
\* and no row lies within 0.75 km of them, and otherwise 200 with one of the
\* rows within 0.75 km and the tag of the tier that resolved the address.
C12_Recommend ==
    (op.name = "recomendar_cafe" /\ op.ciudad \in Ciudades /\ ~CargaFallida)
    => /\ EsGeocodeFailed <=> NingunNivel
       /\ ~NingunNivel =>
           /\ Resuelta
           /\ EsNoCandidates <=> (Cercanas = {})
           /\ Cercanas # {} =>
               /\ ret.status = 200
               /\ \E i \in Cercanas :
                     /\ ret.body.cafe.LAT = TablaUsada[i].LAT
                     /\ ret.body.cafe.LONG = TablaUsada[i].LONG
                     /\ ret.body.cafe.DIST_KM = DistanciaDe(i)
               /\ ret.body.fuente_geocoding = ret.res.fuente
               /\ (ret.body.fuente_geocoding = "online") <=>
                     (~EnBlanco(op.payload.direccion) /\ op.geo.geo = "Location")
               /\ ret.body.fuente_geocoding \in {"online", "local"}

-----------------------------------------------------------------------------
(* Properties of the all-cities loader and of the roaster loader *)

\* the table of a city if its entry in c is fresh at t, else no rows
TablaFresca(c, t, ciudad) ==
    IF NoFresca(c, t, ciudad) THEN <<>> ELSE c.cafes_por_ciudad[ciudad].df

\* the reads of a sheet that a refresh at t on cache c has to make, in order
HojasPorLeer(c, t) ==
    (IF NoFresca(c, t, "Mar del Plata") THEN <<<<"sheet_url", "Mar del Plata">>>> ELSE <<>>)
        \o (IF NoFresca(c, t, "Buenos Aires") THEN <<<<"sheet_url", "Buenos Aires">>>> ELSE <<>>)

TodosFresca(c, t) == c.todos_los_cafes # None /\ t - c.todos_los_cafes.ts < 600

\* C13: cargar_todos_los_cafes never raises. While the all-cities entry is
\* fresh it returns that entry's table and touches nothing. On a refresh it
\* loads every city once, in the order of GID_CAFES; a city whose load fails
\* keeps the entry it had and gives no rows; the result is the concatenation of
\* the whole tables of the cities whose load succeeded, and it is stored as the
\* all-cities entry with the time of the call.
C13_LoadAll ==
    [][(op'.name = "cargar_todos_los_cafes")
       => /\ ret'.tipo = "ok"
          /\ TodosFresca(cache, now) =>
                /\ ret'.df = cache.todos_los_cafes.df
                /\ io' = <<>> /\ cache' = cache
          /\ ~TodosFresca(cache, now) =>
                /\ SelectSeq(io', LAMBDA x : x[1] = "sheet_url") = HojasPorLeer(cache, now)
                /\ \A ciudad \in {"Mar del Plata", "Buenos Aires"} :
                      NoFresca(cache', now, ciudad) =>
                          /\ cache'.cafes_por_ciudad[ciudad] = cache.cafes_por_ciudad[ciudad]
                          /\ <<"Cafes.csv", ciudad>> \in {io'[k] : k \in 1..Len(io')}
                /\ ret'.df = TablaFresca(cache', now, "Mar del Plata")
                                \o TablaFresca(cache', now, "Buenos Aires")
                /\ cache'.todos_los_cafes = [ts |-> now, df |-> ret'.df]
                /\ cache'.tostadores = cache.tostadores]_vars

\* a refresh in which the first city was read from its sheet and gave rows
\* while both reads of the second failed
C13_Witness ==
    /\ op.name = "cargar_todos_los_cafes"
    /\ io = <<<<"sheet_url", "Mar del Plata">>, <<"sheet_url", "Buenos Aires">>,
              <<"Cafes.csv", "Buenos Aires">>>>
    /\ cache.cafes_por_ciudad["Buenos Aires"] = None
    /\ Len(ret.df) = 2
    /\ cache.todos_los_cafes = [ts |-> now, df |-> ret.df]

\* C14: cargar_tostadores never raises. While the roaster entry is fresh it
\* returns that entry's table and reads nothing. Otherwise it reads the sheet
\* once and stores what it returns as the roaster entry with the time of the
\* call; when the sheet cannot be read, what it returns and stores is the table
\* without rows whose columns are TOSTADOR, VARIEDADES, DESCRIPCION, INSTAGRAM
\* and CIUDAD.
C14_Roasters ==
    [][(op'.name = "cargar_tostadores")
       => /\ ret'.tipo = "ok"
          /\ (cache.tostadores # None /\ now - cache.tostadores.ts < 600) =>
                /\ ret'.df = cache.tostadores.df
                /\ io' = <<>> /\ cache' = cache
          /\ (cache.tostadores = None \/ now - cache.tostadores.ts >= 600) =>
                /\ io' = <<<<"sheet_url", "tostadores">>>>
                /\ cache'.tostadores = [ts |-> now, df |-> ret'.df]
                /\ cache'.cafes_por_ciudad = cache.cafes_por_ciudad
                /\ cache'.todos_los_cafes = cache.todos_los_cafes
                /\ ~op'.remoto_ok =>
                      ret'.df = [columns |-> <<"TOSTADOR", "VARIEDADES", "DESCRIPCION",
                                              "INSTAGRAM", "CIUDAD">>,
                                 filas |-> <<>>]]_vars

\* a call 599 seconds after the sheet could not be read is answered, without a
\* read, with the table without rows that was stored then
C14_Witness ==
    /\ op.name = "cargar_tostadores" /\ io = <<>>
    /\ ret.tipo = "ok" /\ ret.df.filas = <<>> /\ Len(ret.df.columns) = 5
    /\ cache.tostadores.df = ret.df
    /\ now - cache.tostadores.ts = 599

-----------------------------------------------------------------------------
(* Properties of the service under concurrent requests *)

\* for each city, the whole cleaned and stamped tables a load may produce
TablasCompletas ==
    [c \in Ciudades |->
        {guardar_ciudad(limpiar_coordenadas(cruda), c) :
            cruda \in HojasCafes \cup ArchivosLocales}]

\* the rows are the whole cleaned and stamped table of one load for ciudad
Completa(filas, ciudad) == filas \in TablasCompletas[ciudad]

\* the object d is still what it was, or has given way to another object
Intacto(d, e) == e = d \/ e = None \/ e.id # d.id

\* C15: under any interleaving of the calls of two threads, the table of a
\* published entry, and the table a handler was given, never change in place:
\* an entry either stays as it is or gives way, in one step, to an entry with
\* another table; every table in the cache or in the hands of a handler is the
\* whole cleaned and stamped table of one load; and the step that stores puts
\* the table of its thread, with the time of the step, in place of whatever
\* was there, so that of two overlapping refreshes the last to store wins.
C15_Atomic ==
    [][/\ \A c \in {"Mar del Plata", "Buenos Aires"} :
            /\ cache.cafes_por_ciudad[c] # None =>
                  /\ cache'.cafes_por_ciudad[c] # None
                  /\ \/ cache'.cafes_por_ciudad[c] = cache.cafes_por_ciudad[c]
                     \/ cache'.cafes_por_ciudad[c].df.id # cache.cafes_por_ciudad[c].df.id
            /\ cache'.cafes_por_ciudad[c] # None =>
                  Completa(cache'.cafes_por_ciudad[c].df.filas, c)
       /\ \A h \in {1, 2} :
            /\ ret[h] # None => Intacto(ret[h], ret'[h])
            /\ ret'[h] # None => Completa(ret'[h].filas, op'[h].ciudad)
            /\ (op[h].pc = "store" /\ op'[h].pc # "store") =>
                  /\ cache'.cafes_por_ciudad[op[h].ciudad] = [ts |-> now, df |-> op[h].df]
                  /\ \A c \in {"Mar del Plata", "Buenos Aires"} \ {op[h].ciudad} :
                        cache'.cafes_por_ciudad[c] = cache.cafes_por_ciudad[c]]_vars

\* two refreshes of one city have overlapped: both threads have read, each
\* holds its own table, the tables differ, and the entry holds the table of
\* the second thread
C15_Witness ==
    /\ op[1].pc = "use" /\ op[2].pc = "use"
    /\ op[1].ciudad = op[2].ciudad
    /\ io[1] # <<>> /\ io[2] # <<>>
    /\ ret[1].id = <<1, 1>> /\ ret[2].id = <<2, 1>>
    /\ ret[1].filas # ret[2].filas
    /\ cache.cafes_por_ciudad[op[1].ciudad].df = ret[2]

-----------------------------------------------------------------------------
(* Properties of the text utilities, of the scoring and of the cleaning *)

\* C16: normalizar_texto, with each fallback the program uses, and
\* texto_normalizado give back what they are given when that is a value they
\* have returned.
C16_Idempotent ==
    (op.name \in {"normalizar_texto", "texto_normalizado"} /\ ret # None)
        => ret.otra_vez = ret.valor
\* the number of distinct looked-up words of the address that the normalized
\* location and name of the row hold
PuntajeDistinto(row, direccion) ==
    Cardinality({w \in PalabrasBuscadas(direccion) : Comparte(row, {w})})

MejorDistinto(df, direccion, i) ==
    \A j \in 1..Len(df) :
        PuntajeDistinto(df[j], direccion) <= PuntajeDistinto(df[i], direccion)

\* C17: the tokens looked up are those of three characters or more of the
\* normalized address, or all of them when there is none, so at least one when
\* the normalized address is not empty; the score of each row is the number of
\* distinct tokens found in its normalized location and name; and when the
\* best score is positive geocodificar_desde_cafes returns the coordinates of
\* a row of maximal score.
C17_DistinctTokenScore ==
    EsDesdeCafes =>
        /\ {tokens_de(texto_normalizado(op.direccion))[k] :
               k \in 1..Len(tokens_de(texto_normalizado(op.direccion)))}
              = PalabrasBuscadas(op.direccion)
        /\ texto_normalizado(op.direccion) # <<>>
              => tokens_de(texto_normalizado(op.direccion)) # <<>>
        /\ \A i \in 1..Len(op.cafes_df) :
              score(op.cafes_df[i], tokens_de(texto_normalizado(op.direccion)))
                  = PuntajeDistinto(op.cafes_df[i], op.direccion)
        /\ (\E i \in 1..Len(op.cafes_df) : PuntajeDistinto(op.cafes_df[i], op.direccion) > 0)
              => /\ ret.tipo = "ok"
                 /\ \E i \in 1..Len(op.cafes_df) :
                       /\ MejorDistinto(op.cafes_df, op.direccion, i)
                       /\ ret.coords = Coords(op.cafes_df[i].LAT, op.cafes_df[i].LONG)
\* what the cells of the sheets read as, in thousandths of a degree, after
\* the decimal comma has been replaced by a point
Grados(celda) ==
    CASE celda = <<"-", "3", "8", ",", "0", "0", "0">> -> -38000
      [] celda = <<"-", "3", "8", ".", "0", "0", "5">> -> -38005
      [] celda = <<"-", "3", "8", ".", "1">> -> -38100
      [] celda = <<"-", "5", "7", ".", "5", "5", "0">> -> -57550
      [] celda = <<"-", "5", "7", ",", "5", "5">> -> -57550
      [] celda = <<"9", "0">> -> 90000
      [] celda = <<"-", "9", "0", ",", "0">> -> -90000
      [] celda = <<"9", "0", ".", "0", "0", "1">> -> 90001
      [] celda = <<"-", "1", "8", "0">> -> -180000
      [] celda = <<"1", "8", "0", ".", "0", "0">> -> 180000
      [] celda = <<"-", "1", "8", "0", ",", "5">> -> -180500

\* the cells that are no number: missing, "38S", "1,2,3"
SinValor == {<<>>, <<"3", "8", "S">>, <<"1", ",", "2", ",", "3">>}

FilaValida(f) ==
    /\ f.LAT \notin SinValor /\ f.LONG \notin SinValor
    /\ -90000 <= Grados(f.LAT) /\ Grados(f.LAT) <= 90000
    /\ -180000 <= Grados(f.LONG) /\ Grados(f.LONG) <= 180000

FilasValidas(df) == SelectSeq(df, FilaValida)

EsCargaDeTabla == op.name = "cargar_cafes" /\ ret # None

\* C18: the table cargar_cafes stores for a fetched table holds, in the order
\* of the sheet, exactly the rows whose latitude and longitude read as numbers
\* in [-90, 90] and [-180, 180], ends included, with those numbers as their
\* values; a row with a missing, unreadable or out-of-range coordinate is not
\* in it.
C18_CleaningExact ==
    EsCargaDeTabla =>
        /\ Len(cache.cafes_por_ciudad[op.ciudad].df) = Len(FilasValidas(op.df))
        /\ \A i \in 1..Len(FilasValidas(op.df)) :
              cache.cafes_por_ciudad[op.ciudad].df[i]
                  = [FilasValidas(op.df)[i] EXCEPT
                        !.LAT = Grados(FilasValidas(op.df)[i].LAT),
                        !.LONG = Grados(FilasValidas(op.df)[i].LONG),
                        !.CIUDAD = op.ciudad]

\* a sheet whose first row has a longitude of -180.5 and whose second row is
\* at (90, -180) has been loaded: the second row alone is stored
C18_Witness ==
    /\ EsCargaDeTabla
    /\ op.df = <<FilaLongFuera, FilaBorde>>
    /\ Len(cache.cafes_por_ciudad[op.ciudad].df) = 1
    /\ cache.cafes_por_ciudad[op.ciudad].df[1].LAT = 90000
    /\ cache.cafes_por_ciudad[op.ciudad].df[1].LONG = -180000
-----------------------------------------------------------------------------
(* Properties of a local resolution seen through the service *)

\* the handler resolved the address from the table of the city
ResueltaLocal ==
    /\ EsBusqueda(op) /\ ret.res # None
    /\ ret.res.tipo = "ok" /\ ret.res.fuente = "local"

\* C19: when buscar_cafes or recomendar_cafe resolves the address from the
\* table (tag "local"), a row of that table that holds a looked-up word is at
\* distance 0 from the resolved point; recomendar_cafe then answers 200, never
\* "no hay cafés en 750 m", and buscar_cafes without a roaster filter answers
\* a list that is not empty and whose first element is at distance 0.
C19_LocalAtZero ==
    ResueltaLocal =>
        /\ \E i \in 1..Len(TablaUsada) :
              /\ DistanciaDe(i) = 0
              /\ Comparte(TablaUsada[i], PalabrasBuscadas(op.payload.direccion))
        /\ op.name = "recomendar_cafe" =>
              /\ ~EsNoCandidates
              /\ ret.status = 200
              /\ ret.body.fuente_geocoding = "local"
        /\ (op.name = "buscar_cafes" /\ op.payload.tostador \in {<<>>, Todos}) =>
              /\ ret.status = 200
              /\ ret.body # <<>>
              /\ ret.body[1].DIST_KM = 0

\* "Av. Colón 100" has been searched for within 2 km with no roaster filter
\* while the provider gave nothing: the table resolved it, and the answer
\* holds Nave at distance 0 and then lana, 555 m away
C19_Witness ==
    /\ ResueltaLocal /\ op.name = "buscar_cafes"
    /\ op.payload.tostador = <<>> /\ op.payload.radio_km = 2000
    /\ Len(ret.body) = 2
    /\ ret.body[1].DIST_KM = 0 /\ ret.body[2].DIST_KM = 555

====
